---- MODULE Spec2Model ----
(***************************************************************************)
(* Model of package normurl (src/normurl.go): a Locator is either an       *)
(* absolute file path or an http(s) URL.                                   *)
(*                                                                         *)
(* Strings are sequences of one-character strings.  The package leans on   *)
(* net/url (Parse, String, Query, ResolveReference) and path/filepath      *)
(* (IsAbs, Dir, Join); both are modelled by what they compute, for the     *)
(* POSIX build (runtime.GOOS # "windows") and net/url as of Go 1.19+       *)
(* (URL.OmitHost).  Strings of the model are made of the bytes of Ascii    *)
(* below: they never hold '@', '[', '*' or control bytes, so userinfo,     *)
(* IPv6 literals and the "*" request target are outside the model.         *)
(***************************************************************************)
EXTENDS Integers, Sequences, FiniteSets, TLC

(***************************************************************************)
(* Bounds of the model.                                                    *)
(***************************************************************************)
\* longest generated tail of a string handed to New
MaxLen == 2
\* longest generated reference handed to Resolve
MaxRefLen == 1
\* number of Locator objects a behaviour makes
MaxLocs == 2
\* number of calls in a behaviour
MaxOps == 3

(***************************************************************************)
(* strings                                                                 *)
(***************************************************************************)
\* the bytes of the model in ASCII order; Ord gives the byte order
Ascii ==
  << " ", "#", "%", "&", "+", "-", ".", "/",
     "0", "1", "2", "3", "4", "5", "6", "7", "8", "9", ":", ";", "=", "?",
     "A", "B", "C", "D", "E", "F", "G", "H", "I", "J", "K", "L", "M",
     "N", "O", "P", "Q", "R", "S", "T", "U", "V", "W", "X", "Y", "Z",
     "a", "b", "c", "d", "e", "f", "g", "h", "i", "j", "k", "l", "m",
     "n", "o", "p", "q", "r", "s", "t", "u", "v", "w", "x", "y", "z" >>

Ord(c) == CHOOSE i \in 1..Len(Ascii) : Ascii[i] = c

Digits == {"0", "1", "2", "3", "4", "5", "6", "7", "8", "9"}
UpperLetters ==
  {"A", "B", "C", "D", "E", "F", "G", "H", "I", "J", "K", "L", "M",
   "N", "O", "P", "Q", "R", "S", "T", "U", "V", "W", "X", "Y", "Z"}
LowerLetters ==
  {"a", "b", "c", "d", "e", "f", "g", "h", "i", "j", "k", "l", "m",
   "n", "o", "p", "q", "r", "s", "t", "u", "v", "w", "x", "y", "z"}

\* strings.ToLower on one byte
LowerOf(c) == IF c \in UpperLetters THEN Ascii[Ord(c) + 26] ELSE c
UpperOf(c) == IF c \in LowerLetters THEN Ascii[Ord(c) - 26] ELSE c

RECURSIVE ToLower(_)
ToLower(s) == IF s = << >> THEN << >> ELSE <<LowerOf(s[1])>> \o ToLower(Tail(s))

\* strings.Index for a one-byte separator; 0 when absent
Index(s, c) ==
  IF \E i \in 1..Len(s) : s[i] = c
  THEN CHOOSE i \in 1..Len(s) : s[i] = c /\ \A j \in 1..(i - 1) : s[j] # c
  ELSE 0

\* strings.LastIndex for a one-byte separator; 0 when absent
LastIndex(s, c) ==
  IF \E i \in 1..Len(s) : s[i] = c
  THEN CHOOSE i \in 1..Len(s) : s[i] = c /\ \A j \in (i + 1)..Len(s) : s[j] # c
  ELSE 0

Contains(s, c) == \E i \in 1..Len(s) : s[i] = c

Count(s, c) == Cardinality({i \in 1..Len(s) : s[i] = c})

\* strings.Cut: the text before and after the first c
CutBefore(s, c) == IF Index(s, c) = 0 THEN s ELSE SubSeq(s, 1, Index(s, c) - 1)
CutAfter(s, c) == IF Index(s, c) = 0 THEN << >> ELSE SubSeq(s, Index(s, c) + 1, Len(s))

HasPrefix(s, p) == Len(s) >= Len(p) /\ SubSeq(s, 1, Len(p)) = p

Drop(s, n) == SubSeq(s, n + 1, Len(s))

\* byte-wise string order, as sort.Strings uses
RECURSIVE StrLess(_, _)
StrLess(a, b) ==
  IF b = << >> THEN FALSE
  ELSE IF a = << >> THEN TRUE
  ELSE IF a[1] # b[1] THEN Ord(a[1]) < Ord(b[1])
  ELSE StrLess(Tail(a), Tail(b))

(***************************************************************************)
(* net/url: escaping                                                       *)
(***************************************************************************)
\* the bytes the model can escape, with their two hex digits
HexTable ==
  { <<" ", "2", "0">>, <<"#", "2", "3">>, <<"%", "2", "5">>, <<"&", "2", "6">>,
    <<"+", "2", "B">>, <<"/", "2", "F">>, <<":", "3", "A">>, <<";", "3", "B">>, <<"=", "3", "D">>,
    <<"?", "3", "F">> }

ishex(c) ==
  c \in Digits \cup {"a", "b", "c", "d", "e", "f", "A", "B", "C", "D", "E", "F"}

unhexPair(h1, h2) ==
  (CHOOSE e \in HexTable : e[2] = UpperOf(h1) /\ e[3] = UpperOf(h2))[1]

hexOf(c) == LET e == CHOOSE e \in HexTable : e[1] = c IN <<"%", e[2], e[3]>>

HostOK == {"&", "+", ";", "=", ":"}

shouldEscape(c, mode) ==
  IF c \in Digits \cup UpperLetters \cup LowerLetters THEN FALSE
  ELSE IF mode = "host" /\ c \in HostOK THEN FALSE
  ELSE IF c \in {"-", "."} THEN FALSE
  ELSE IF c \in {"&", "+", "/", ":", ";", "=", "?"}
       THEN CASE mode = "path" -> c = "?"
              [] mode = "query" -> TRUE
              [] mode = "fragment" -> FALSE
              [] OTHER -> TRUE
  ELSE TRUE

\* unescape's first pass: "" when s is well formed, else the error
RECURSIVE unescapeErr(_, _)
unescapeErr(s, mode) ==
  IF s = << >> THEN ""
  ELSE IF s[1] = "%"
       THEN IF Len(s) < 3 \/ ~ishex(s[2]) \/ ~ishex(s[3]) THEN "invalid URL escape"
            ELSE IF mode = "host" /\ s[2] \in {"0", "1", "2", "3", "4", "5", "6", "7"}
                                  /\ <<s[2], s[3]>> # <<"2", "5">>
                 THEN "invalid URL escape"
            ELSE unescapeErr(Drop(s, 3), mode)
       ELSE IF mode = "host" /\ shouldEscape(s[1], "host") THEN "invalid character in host name"
       ELSE unescapeErr(Tail(s), mode)

\* unescape's second pass, on a well-formed s
RECURSIVE unescape(_, _)
unescape(s, mode) ==
  IF s = << >> THEN << >>
  ELSE IF s[1] = "%" THEN <<unhexPair(s[2], s[3])>> \o unescape(Drop(s, 3), mode)
  ELSE IF s[1] = "+" /\ mode = "query" THEN <<" ">> \o unescape(Tail(s), mode)
  ELSE <<s[1]>> \o unescape(Tail(s), mode)

RECURSIVE escape(_, _)
escape(s, mode) ==
  IF s = << >> THEN << >>
  ELSE IF shouldEscape(s[1], mode)
       THEN (IF s[1] = " " /\ mode = "query" THEN <<"+">> ELSE hexOf(s[1]))
            \o escape(Tail(s), mode)
       ELSE <<s[1]>> \o escape(Tail(s), mode)

validEncoded(s, mode) ==
  \A i \in 1..Len(s) :
    \/ s[i] \in {"&", "+", ";", "=", ":", "%"}
    \/ ~shouldEscape(s[i], mode)

(***************************************************************************)
(* net/url: URL, Parse and String                                          *)
(***************************************************************************)
\* the zero url.URL (User is always nil in the model)
EmptyURL ==
  [Scheme |-> << >>, Opaque |-> << >>, Host |-> << >>, Path |-> << >>,
   RawPath |-> << >>, OmitHost |-> FALSE, ForceQuery |-> FALSE,
   RawQuery |-> << >>, Fragment |-> << >>, RawFragment |-> << >>]

\* getScheme: the index of the ':' that ends the scheme, 0 when there is no
\* scheme, -1 for "missing protocol scheme"
RECURSIVE getSchemeAt(_, _)
getSchemeAt(s, i) ==
  IF i > Len(s) THEN 0
  ELSE IF s[i] \in UpperLetters \cup LowerLetters THEN getSchemeAt(s, i + 1)
  ELSE IF s[i] \in Digits \cup {"+", "-", "."}
       THEN (IF i = 1 THEN 0 ELSE getSchemeAt(s, i + 1))
  ELSE IF s[i] = ":" THEN (IF i = 1 THEN -1 ELSE i)
  ELSE 0

getScheme(s) == getSchemeAt(s, 1)

validOptionalPort(port) ==
  \/ port = << >>
  \/ port[1] = ":" /\ \A i \in 2..Len(port) : port[i] \in Digits

\* parseHost: "" or the error
parseHostErr(host) ==
  IF LastIndex(host, ":") # 0
     /\ ~validOptionalPort(SubSeq(host, LastIndex(host, ":"), Len(host)))
  THEN "invalid port after host"
  ELSE unescapeErr(host, "host")

\* setPath
setPath(u, p) ==
  LET path == unescape(p, "path")
  IN [u EXCEPT !.Path = path,
               !.RawPath = IF escape(path, "path") = p THEN << >> ELSE p]

\* setFragment
setFragment(u, f) ==
  LET frag == unescape(f, "fragment")
  IN [u EXCEPT !.Fragment = frag,
               !.RawFragment = IF escape(frag, "fragment") = f THEN << >> ELSE f]

\* parse(rawURL, viaRequest = false), on the text before '#'
parse(rawURL) ==
  LET colon == getScheme(rawURL)
      scheme == IF colon > 0 THEN ToLower(SubSeq(rawURL, 1, colon - 1)) ELSE << >>
      rest0 == IF colon > 0 THEN Drop(rawURL, colon) ELSE rawURL
      force == rest0 # << >> /\ rest0[Len(rest0)] = "?" /\ Count(rest0, "?") = 1
      rest1 == IF force THEN SubSeq(rest0, 1, Len(rest0) - 1) ELSE CutBefore(rest0, "?")
      query == IF force THEN << >> ELSE CutAfter(rest0, "?")
      u0 == [EmptyURL EXCEPT !.Scheme = scheme, !.ForceQuery = force, !.RawQuery = query]
      hasAuth == (scheme # << >> \/ ~HasPrefix(rest1, <<"/", "/", "/">>))
                 /\ HasPrefix(rest1, <<"/", "/">>)
      auth0 == Drop(rest1, 2)
      authority == CutBefore(auth0, "/")
      rest2 == IF hasAuth
               THEN (IF Index(auth0, "/") = 0 THEN << >>
                     ELSE SubSeq(auth0, Index(auth0, "/"), Len(auth0)))
               ELSE rest1
      u1 == IF hasAuth THEN [u0 EXCEPT !.Host = unescape(authority, "host")]
            ELSE IF scheme # << >> /\ HasPrefix(rest1, <<"/">>)
                 THEN [u0 EXCEPT !.OmitHost = TRUE]
            ELSE u0
  IN IF colon = -1 THEN [err |-> "missing protocol scheme", u |-> EmptyURL]
     ELSE IF ~HasPrefix(rest1, <<"/">>) /\ scheme # << >>
          THEN [err |-> "", u |-> [u0 EXCEPT !.Opaque = rest1]]
     ELSE IF ~HasPrefix(rest1, <<"/">>) /\ Contains(CutBefore(rest1, "/"), ":")
          THEN [err |-> "first path segment in URL cannot contain colon", u |-> EmptyURL]
     ELSE IF hasAuth /\ parseHostErr(authority) # ""
          THEN [err |-> parseHostErr(authority), u |-> EmptyURL]
     ELSE IF unescapeErr(rest2, "path") # ""
          THEN [err |-> unescapeErr(rest2, "path"), u |-> EmptyURL]
     ELSE [err |-> "", u |-> setPath(u1, rest2)]

\* url.Parse
Parse(rawURL) ==
  LET r == parse(CutBefore(rawURL, "#"))
      frag == CutAfter(rawURL, "#")
  IN IF r.err # "" THEN r
     ELSE IF frag = << >> THEN r
     ELSE IF unescapeErr(frag, "fragment") # ""
          THEN [err |-> unescapeErr(frag, "fragment"), u |-> EmptyURL]
     ELSE [err |-> "", u |-> setFragment(r.u, frag)]

\* (*URL).EscapedPath
EscapedPath(u) ==
  IF u.RawPath # << >> /\ validEncoded(u.RawPath, "path")
     /\ unescapeErr(u.RawPath, "path") = "" /\ unescape(u.RawPath, "path") = u.Path
  THEN u.RawPath
  ELSE escape(u.Path, "path")

\* (*URL).EscapedFragment
EscapedFragment(u) ==
  IF u.RawFragment # << >> /\ validEncoded(u.RawFragment, "fragment")
     /\ unescapeErr(u.RawFragment, "fragment") = ""
     /\ unescape(u.RawFragment, "fragment") = u.Fragment
  THEN u.RawFragment
  ELSE escape(u.Fragment, "fragment")

\* (*URL).String
URLString(u) ==
  LET head == IF u.Scheme # << >> THEN u.Scheme \o <<":">> ELSE << >>
      auth == IF (u.Scheme # << >> \/ u.Host # << >>) /\ ~(u.OmitHost /\ u.Host = << >>)
              THEN (IF u.Host # << >> \/ u.Path # << >> THEN <<"/", "/">> ELSE << >>)
                   \o escape(u.Host, "host")
              ELSE << >>
      path == EscapedPath(u)
      slash == IF path # << >> /\ path[1] # "/" /\ u.Host # << >> THEN <<"/">> ELSE << >>
      dot == IF head \o auth \o slash = << >> /\ Contains(CutBefore(path, "/"), ":")
             THEN <<".", "/">> ELSE << >>
      body == IF u.Opaque # << >> THEN head \o u.Opaque
              ELSE head \o auth \o slash \o dot \o path
      q == IF u.ForceQuery \/ u.RawQuery # << >> THEN <<"?">> \o u.RawQuery ELSE << >>
      f == IF u.Fragment # << >> THEN <<"#">> \o EscapedFragment(u) ELSE << >>
  IN body \o q \o f

(***************************************************************************)
(* net/url: Values (a map from a key to its list of values)                *)
(***************************************************************************)
QueryUnescapeErr(s) == unescapeErr(s, "query")
QueryUnescape(s) == unescape(s, "query")
QueryEscape(s) == escape(s, "query")

\* m[key] = append(m[key], value)
ValuesAdd(m, key, value) ==
  IF key \in DOMAIN m THEN [m EXCEPT ![key] = Append(@, value)]
  ELSE [k \in DOMAIN m \cup {key} |-> IF k = key THEN <<value>> ELSE m[k]]

\* parseQuery: pairs with a bad escape are skipped, the error is dropped by Query
RECURSIVE parseQuery(_, _)
parseQuery(m, query) ==
  IF query = << >> THEN m
  ELSE LET pair == CutBefore(query, "&")
           rest == CutAfter(query, "&")
           key == CutBefore(pair, "=")
           value == CutAfter(pair, "=")
       IN IF Contains(pair, ";") \/ pair = << >> THEN parseQuery(m, rest)
          ELSE IF QueryUnescapeErr(key) # "" \/ QueryUnescapeErr(value) # ""
               THEN parseQuery(m, rest)
          ELSE parseQuery(ValuesAdd(m, QueryUnescape(key), QueryUnescape(value)), rest)

NoValues == [k \in {} |-> << >>]

\* (*URL).Query
Query(u) == parseQuery(NoValues, u.RawQuery)

\* Values.Set
ValuesSet(m, key, value) ==
  [k \in DOMAIN m \cup {key} |-> IF k = key THEN <<value>> ELSE m[k]]

\* Values.Del
ValuesDel(m, key) == [k \in DOMAIN m \ {key} |-> m[k]]

RECURSIVE encodeKey(_, _)
encodeKey(key, vs) ==
  IF vs = << >> THEN << >>
  ELSE <<"&">> \o QueryEscape(key) \o <<"=">> \o QueryEscape(vs[1]) \o encodeKey(key, Tail(vs))

RECURSIVE encodeKeys(_, _)
encodeKeys(m, keys) ==
  IF keys = {} THEN << >>
  ELSE LET k == CHOOSE k \in keys : \A o \in keys \ {k} : StrLess(k, o)
       IN encodeKey(k, m[k]) \o encodeKeys(m, keys \ {k})

\* Values.Encode: keys sorted, pairs joined by '&'
Encode(m) == IF DOMAIN m = {} THEN << >> ELSE Tail(encodeKeys(m, DOMAIN m))

(***************************************************************************)
(* net/url: ResolveReference                                               *)
(***************************************************************************)
\* the loop of resolvePath over the elements of remaining
RECURSIVE resolveLoop(_, _, _)
resolveLoop(remaining, dst, first) ==
  LET elem == CutBefore(remaining, "/")
      found == Index(remaining, "/") # 0
      str == Tail(dst)
      index == LastIndex(str, "/")
      dst1 == IF elem = <<".">> THEN dst
              ELSE IF elem = <<".", ".">>
                   THEN (IF index = 0 THEN <<"/">> ELSE <<"/">> \o SubSeq(str, 1, index - 1))
              ELSE (IF first THEN dst ELSE dst \o <<"/">>) \o elem
      first1 == IF elem = <<".">> THEN FALSE
                ELSE IF elem = <<".", ".">> THEN (IF index = 0 THEN TRUE ELSE first)
                ELSE FALSE
  IN IF found THEN resolveLoop(CutAfter(remaining, "/"), dst1, first1)
     ELSE IF elem = <<".">> \/ elem = <<".", ".">> THEN dst1 \o <<"/">>
     ELSE dst1

resolvePath(base, ref) ==
  LET full == IF ref = << >> THEN base
              ELSE IF ref[1] # "/" THEN SubSeq(base, 1, LastIndex(base, "/")) \o ref
              ELSE ref
      r == resolveLoop(full, <<"/">>, TRUE)
  IN IF full = << >> THEN << >>
     ELSE IF Len(r) > 1 /\ r[2] = "/" THEN Tail(r)
     ELSE r

\* (*URL).ResolveReference, for a reference without userinfo
ResolveReference(u, ref) ==
  LET url0 == IF ref.Scheme = << >> THEN [ref EXCEPT !.Scheme = u.Scheme] ELSE ref
      inherit == ref.Path = << >> /\ ~ref.ForceQuery /\ ref.RawQuery = << >>
      url1 == IF ~inherit THEN url0
              ELSE IF ref.Fragment = << >>
                   THEN [url0 EXCEPT !.RawQuery = u.RawQuery, !.Fragment = u.Fragment,
                                     !.RawFragment = u.RawFragment]
                   ELSE [url0 EXCEPT !.RawQuery = u.RawQuery]
  IN IF ref.Scheme # << >> \/ ref.Host # << >>
     THEN setPath(url0, resolvePath(EscapedPath(ref), << >>))
     ELSE IF ref.Opaque # << >>
          THEN [url0 EXCEPT !.Host = << >>, !.Path = << >>]
     ELSE IF ref.Path = << >> /\ u.Opaque # << >>
          THEN [url1 EXCEPT !.Opaque = u.Opaque, !.Host = << >>, !.Path = << >>]
     ELSE setPath([url1 EXCEPT !.Host = u.Host],
                  resolvePath(EscapedPath(u), EscapedPath(ref)))

(***************************************************************************)
(* path/filepath, POSIX                                                    *)
(***************************************************************************)
IsAbs(path) == HasPrefix(path, <<"/">>)

\* Clean's walk back to the last separator above dotdot
RECURSIVE backtrack(_, _, _)
backtrack(out, w, dotdot) ==
  IF w > dotdot /\ out[w + 1] # "/" THEN backtrack(out, w - 1, dotdot) ELSE w

\* the loop of Clean: r is the next byte of path, out the buffer
RECURSIVE cleanLoop(_, _, _, _)
cleanLoop(path, r, out, dotdot) ==
  LET n == Len(path)
      rooted == path[1] = "/"
  IN IF r > n THEN out
     ELSE IF path[r] = "/" THEN cleanLoop(path, r + 1, out, dotdot)
     ELSE IF path[r] = "." /\ (r = n \/ path[r + 1] = "/")
          THEN cleanLoop(path, r + 1, out, dotdot)
     ELSE IF path[r] = "." /\ path[r + 1] = "." /\ (r + 1 = n \/ path[r + 2] = "/")
          THEN IF Len(out) > dotdot
               THEN cleanLoop(path, r + 2,
                              SubSeq(out, 1, backtrack(out, Len(out) - 1, dotdot)), dotdot)
               ELSE IF ~rooted
                    THEN LET o == (IF out # << >> THEN out \o <<"/">> ELSE out)
                                  \o <<".", ".">>
                         IN cleanLoop(path, r + 2, o, Len(o))
               ELSE cleanLoop(path, r + 2, out, dotdot)
     ELSE LET o == IF (rooted /\ Len(out) # 1) \/ (~rooted /\ out # << >>)
                   THEN out \o <<"/">> ELSE out
              e == CutBefore(Drop(path, r - 1), "/")
          IN cleanLoop(path, r + Len(e), o \o e, dotdot)

\* filepath.Clean
Clean(path) ==
  IF path = << >> THEN <<".">>
  ELSE LET out == IF path[1] = "/" THEN cleanLoop(path, 2, <<"/">>, 1)
                  ELSE cleanLoop(path, 1, << >>, 0)
       IN IF out = << >> THEN <<".">> ELSE out

\* filepath.Dir
Dir(path) == Clean(SubSeq(path, 1, LastIndex(path, "/")))

\* filepath.Join of two elements
Join(a, b) ==
  IF a # << >> THEN Clean(a \o <<"/">> \o b)
  ELSE IF b # << >> THEN Clean(b)
  ELSE << >>

(***************************************************************************)
(* encoding/json, for the jsonLocator struct                               *)
(***************************************************************************)
\* the body of a JSON string literal: json.Marshal writes '&' as \u0026
RECURSIVE jsonQuote(_)
jsonQuote(s) ==
  IF s = << >> THEN << >>
  ELSE IF s[1] = "&" THEN <<"\\", "u", "0", "0", "2", "6">> \o jsonQuote(Tail(s))
  ELSE <<s[1]>> \o jsonQuote(Tail(s))

RECURSIVE jsonUnquote(_)
jsonUnquote(s) ==
  IF s = << >> THEN << >>
  ELSE IF HasPrefix(s, <<"\\", "u", "0", "0", "2", "6">>)
       THEN <<"&">> \o jsonUnquote(Drop(s, 6))
  ELSE <<s[1]>> \o jsonUnquote(Tail(s))

\* json.Marshal(jsonLocator{Url, File}): {"Url":"...","File":...}
jsonMarshal(jl) ==
  [wellFormed |-> TRUE, hasUrl |-> TRUE, Url |-> jsonQuote(jl.Url),
   hasFile |-> TRUE, File |-> jl.File]

\* json.Unmarshal(data, &jl): absent fields keep their zero value
jsonUnmarshal(data) ==
  IF ~data.wellFormed
  THEN [err |-> "invalid json", Url |-> << >>, File |-> FALSE]
  ELSE [err |-> "",
        Url |-> IF data.hasUrl THEN jsonUnquote(data.Url) ELSE << >>,
        File |-> data.hasFile /\ data.File]

(***************************************************************************)
(* normurl: the functions of the package on values                         *)
(***************************************************************************)
\* runtime.GOOS of the modelled build
GOOS == "linux"

\* filepath.FromSlash(strings.TrimPrefix(path, "/")) on windows
RECURSIVE FromSlashWindows(_)
FromSlashWindows(p) ==
  IF p = << >> THEN << >>
  ELSE <<IF p[1] = "/" THEN "\\" ELSE p[1]>> \o FromSlashWindows(Tail(p))

TrimSlash(p) == IF HasPrefix(p, <<"/">>) THEN Tail(p) ELSE p

Failure(e) == [err |-> e, scheme |-> << >>, u |-> EmptyURL, file |-> FALSE]
Success(u, f) == [err |-> "", scheme |-> << >>, u |-> u, file |-> f]

\* New after url.Parse, with the scheme of a file: URI left in place
NewParsed_KeepScheme(s, r) ==
  IF r.err # "" THEN Failure(r.err)
  ELSE IF r.u.Scheme = << >>
       THEN (IF ~IsAbs(s) THEN Failure("expected absolute path") ELSE Success(r.u, TRUE))
  ELSE IF r.u.Scheme = <<"f", "i", "l", "e">> THEN Success(r.u, TRUE)
  ELSE IF r.u.Scheme # <<"h", "t", "t", "p">> /\ r.u.Scheme # <<"h", "t", "t", "p", "s">>
       THEN [Failure("unsupported scheme") EXCEPT !.scheme = r.u.Scheme]
  ELSE Success(r.u, FALSE)

\* New after url.Parse, without the check of the scheme
NewParsed_AnyScheme(s, r) ==
  IF r.err # "" THEN Failure(r.err)
  ELSE IF r.u.Scheme = << >>
       THEN (IF ~IsAbs(s) THEN Failure("expected absolute path") ELSE Success(r.u, TRUE))
  ELSE IF r.u.Scheme = <<"f", "i", "l", "e">>
       THEN Success([r.u EXCEPT !.Scheme = << >>], TRUE)
  ELSE Success(r.u, FALSE)

\* New(s) after url.Parse(s) returned r = [err, u]
NewParsed(s, r) ==
  IF r.err # "" THEN Failure(r.err)
  ELSE IF r.u.Scheme = << >>
       THEN (IF ~IsAbs(s) THEN Failure("expected absolute path") ELSE Success(r.u, TRUE))
  ELSE IF r.u.Scheme = <<"f", "i", "l", "e">>
       THEN Success([r.u EXCEPT !.Scheme = << >>,
                                !.Path = IF GOOS = "windows"
                                         THEN FromSlashWindows(TrimSlash(r.u.Path))
                                         ELSE r.u.Path],
                    TRUE)
  ELSE IF r.u.Scheme # <<"h", "t", "t", "p">> /\ r.u.Scheme # <<"h", "t", "t", "p", "s">>
       THEN [Failure("unsupported scheme") EXCEPT !.scheme = r.u.Scheme]
  ELSE Success(r.u, FALSE)

\* New(s): the error, or the url and file flag of the new Locator
NewF(s) == NewParsed(s, Parse(s))

\* Resolve after url.Parse that resolves a reference with a scheme against
\* the base
ResolveParsed_NoSchemeCheck(bfile, bu, s, r) ==
  IF r.err # "" THEN Failure(r.err)
  ELSE IF bfile
       THEN (IF IsAbs(s) THEN Success(r.u, TRUE)
             ELSE Success([EmptyURL EXCEPT !.Path = Join(Dir(bu.Path), s)], TRUE))
  ELSE Success(ResolveReference(bu, r.u), FALSE)

\* Resolve after url.Parse that joins the reference to the base path, not to
\* its directory
ResolveParsed_JoinBase(bfile, bu, s, r) ==
  IF r.err # "" THEN Failure(r.err)
  ELSE IF r.u.Scheme # << >> THEN NewF(s)
  ELSE IF bfile
       THEN (IF IsAbs(s) THEN Success(r.u, TRUE)
             ELSE Success([EmptyURL EXCEPT !.Path = Join(bu.Path, s)], TRUE))
  ELSE Success(ResolveReference(bu, r.u), FALSE)

\* base.Resolve(s) after url.Parse(s) returned r = [err, u]
ResolveParsed(bfile, bu, s, r) ==
  IF r.err # "" THEN Failure(r.err)
  ELSE IF r.u.Scheme # << >> THEN NewF(s)
  ELSE IF bfile
       THEN (IF IsAbs(s) THEN Success(r.u, TRUE)
             ELSE Success([EmptyURL EXCEPT !.Path = Join(Dir(bu.Path), s)], TRUE))
  ELSE Success(ResolveReference(bu, r.u), FALSE)

\* base.Resolve(s) for a base with flag bfile and url bu
ResolveF(bfile, bu, s) == ResolveParsed(bfile, bu, s, Parse(s))

\* the query after query.Set(param, value) or query.Del(param)
SetOrDel(query, param, value) ==
  IF value # << >> THEN ValuesSet(query, param, value) ELSE ValuesDel(query, param)

\* SetQueryParam that adds the value to those the parameter has
SetQueryParamF_Add(lfile, lu, param, value) ==
  IF lfile THEN lu
  ELSE [lu EXCEPT !.RawQuery =
          Encode(IF value # << >> THEN ValuesAdd(Query(lu), param, value)
                 ELSE ValuesDel(Query(lu), param))]

\* SetQueryParam without the check of the file flag
SetQueryParamF_NoFileCheck(lfile, lu, param, value) ==
  [lu EXCEPT !.RawQuery = Encode(SetOrDel(Query(lu), param, value))]

\* l.SetQueryParam(param, value): the url afterwards
SetQueryParamF(lfile, lu, param, value) ==
  IF lfile THEN lu
  ELSE [lu EXCEPT !.RawQuery = Encode(SetOrDel(Query(lu), param, value))]

\* l.String()
String(lu) == URLString(lu)

\* l.MarshalJSON()
MarshalF(lfile, lu) == jsonMarshal([Url |-> String(lu), File |-> lfile])

\* UnmarshalJSON after json.Unmarshal and New that takes the File flag of
\* the data as it comes
UnmarshalDecoded_TrustFlag(jl, nl) ==
  IF jl.err # "" THEN Failure(jl.err)
  ELSE IF jl.Url = << >> THEN Failure("missing url")
  ELSE IF nl.err # "" THEN nl
  ELSE Success(nl.u, jl.File)

\* l.UnmarshalJSON after json.Unmarshal gave jl; nl is what New(jl.Url)
\* returns
UnmarshalDecoded(jl, nl) ==
  IF jl.err # "" THEN Failure(jl.err)
  ELSE IF jl.Url = << >> THEN Failure("missing url")
  ELSE IF nl.err # "" THEN nl
  ELSE IF jl.File # nl.file THEN Failure("file flag mismatch")
  ELSE Success(nl.u, jl.File)

\* l.UnmarshalJSON(data): the error, or the url and flag l is given
UnmarshalF(data) == UnmarshalDecoded(jsonUnmarshal(data), NewF(jsonUnmarshal(data).Url))

(***************************************************************************)
(* inputs                                                                  *)
(***************************************************************************)
\* all strings over alphabet A of length at most n
RECURSIVE Strs(_, _)
Strs(A, n) ==
  IF n = 0 THEN {<< >>}
  ELSE LET P == Strs(A, n - 1) IN P \cup {Append(p, c) : p \in P, c \in A}

Sigma == {"/", "h", ".", ":", "?", "#"}

Prefixes ==
  { << >>,
    <<"/", "h">>,
    <<"f", "i", "l", "e", ":">>,
    <<"f", "i", "l", "e", ":", "/", "/">>,
    <<"h", "t", "t", "p", ":">>,
    <<"h", "t", "t", "p", "s", ":", "/", "/", "h">>,
    <<"f", "t", "p", ":">> }

\* strings handed to New: generated ones and the documented examples
Examples ==
  { <<"/", "a", "/", "b", "/", "c", ".", "t", "x", "t">>,
    <<"/", "t", "m", "p", "/", "x">>,
    <<"f", "i", "l", "e", ":", "/", "/", "/", "t", "m", "p", "/", "x">>,
    <<"h", "t", "t", "p", "s", ":", "/", "/", "e", "x", ".", "c", "o", "m", "/", "a", "/", "b", "?", "x", "=", "1">>,
    <<"h", "t", "t", "p", "s", ":", "/", "/", "e", "x", ".", "c", "o", "m", "/", "p">>,
    <<"f", "t", "p", ":", "/", "/", "h", "o", "s", "t", "/", "p", "a", "t", "h">>,
    <<"/", "a", " ", "b">>,
    <<"/", "a", "%", "2", "0", "b">>,
    <<"/", "a", "%", "2", "F", "b">>,
    <<"/", "a", "%", "3", "F", "b">>,
    <<"/", "%", "z", "z">>,
    <<"H", "T", "T", "P", ":", "/", "/", "h", "/", "p">>,
    <<"h", "t", "t", "p", ":", "/", "/", "h", ":", "8", "0", "/", "p">>,
    <<"h", "t", "t", "p", ":", "/", "/", "h", ":", "x", "/", "p">>,
    <<"h", "t", "t", "p", ":", "/", "/", "h", "/", "p", "#", "a", " ", "b">>,
    <<"/", "a", "/", "b", "?", "k", "=", "v", "&", "k", "=", "w", "#", "f">>,
    <<"f", "i", "l", "e", ":", "H", "T", "T", "P", ":", "x">> }

Generated == {p \o t : p \in Prefixes, t \in Strs(Sigma, MaxLen)}

\* the Locators a caller starts from
Bases ==
  { <<"/", "a", "/", "b", "/", "c", ".", "t", "x", "t">>,
    <<"/", "a", "/", "b", "?", "x", "=", "1", "#", "f">>,
    <<"f", "i", "l", "e", ":", "/", "/", "/", "t", "m", "p", "/", "x">>,
    <<"f", "i", "l", "e", ":", "h">>,
    <<"h", "t", "t", "p", "s", ":", "/", "/", "e", "x", ".", "c", "o", "m", "/", "a", "/", "b", "?", "x", "=", "1">>,
    <<"h", "t", "t", "p", "s", ":", "/", "/", "e", "x", ".", "c", "o", "m", "/", "p", "?">>,
    <<"h", "t", "t", "p", ":", "h", "?", "k", "=", "1", "&", "z", "=", "a", "+", "b", "&", "k", "=", "3", "&", "b", "=", "%", "z", "z">>,
    <<"f", "t", "p", ":", "/", "/", "h", "o", "s", "t", "/", "p", "a", "t", "h">> }

RefSigma == {"/", "h", ".", "?", "%"}

RefPrefixes ==
  { << >>,
    <<"e", "/">>,
    <<"h", "t", "t", "p", "s", ":">>,
    <<"f", "t", "p", ":">> }

RefExamples ==
  { <<"d", ".", "t", "x", "t">>,
    <<"/", "a", " ", "b">>,
    <<"?", "x", "=", "1">>,
    <<"h", "t", "t", "p", "s", ":", "/", "/", "e", "x", ".", "c", "o", "m", "/", "x">>,
    <<"%">> }

\* further references, for the generated bases
MoreRefs ==
  { <<".", ".", "/", "x">>,
    <<".", "/", "h", "/", ".", ".", "/", "e">>,
    <<"e", "/", "/", "h", "/", ".", "/", ".", ".">>,
    <<"?", "k", "=", "v">>,
    <<"#", "f">>,
    <<"/", "/", "h">>,
    <<"c">>,
    <<"h", ":", "/", "x">>,
    <<"H", "T", "T", "P", ":", "/", "/", "h", "/", ".", "/", "p">> }

References ==
  {p \o t : p \in RefPrefixes, t \in Strs(RefSigma, MaxRefLen)} \cup RefExamples \cup MoreRefs

Params == {<<"k">>, <<"x", "&">>}

ParamValues == {<< >>, <<"v">>, <<"=", " ", "/">>}

Doc(hasUrl, url, hasFile, file) ==
  [wellFormed |-> TRUE, hasUrl |-> hasUrl, Url |-> url, hasFile |-> hasFile, File |-> file]

\* JSON documents not produced by MarshalJSON
Docs ==
  { Doc(FALSE, << >>, TRUE, TRUE),
    Doc(TRUE, <<"/", "a", "/", "b">>, TRUE, FALSE),
    Doc(TRUE, <<"/", "a", "/", "b">>, TRUE, TRUE),
    Doc(TRUE, <<"h", "t", "t", "p", "s", ":", "/", "/", "e", "x", ".", "c", "o", "m", "/", "p">>, TRUE, TRUE),
    Doc(TRUE, <<"f", "t", "p", ":", "/", "/", "h", "o", "s", "t", "/", "p", "a", "t", "h">>, TRUE, FALSE),
    [Doc(FALSE, << >>, FALSE, FALSE) EXCEPT !.wellFormed = FALSE] }

(***************************************************************************)
(* state                                                                   *)
(***************************************************************************)
VARIABLES
  heap,   \* heap[a]: the url.URL object at address a (EmptyURL when unused)
  locs,   \* the Locator objects made so far: [url |-> address, file |-> flag]
  made,   \* made[i]: how Locator i was made, and from which base
  last,   \* the last call: its receiver, arguments and outcome
  nops    \* the number of calls so far

vars == <<heap, locs, made, last, nops>>

Addrs == 1..MaxLocs

NoView == [file |-> FALSE, url |-> EmptyURL]

NoDoc == [wellFormed |-> FALSE, hasUrl |-> FALSE, Url |-> << >>, hasFile |-> FALSE, File |-> FALSE]

NoCall ==
  [op |-> "none", self |-> 0, res |-> 0, s |-> << >>, v |-> << >>, data |-> NoDoc,
   err |-> "", scheme |-> << >>, pre |-> NoView, post |-> NoView]

\* the flag and the url of Locator i
View(i) == [file |-> locs[i].file, url |-> heap[locs[i].url]]

\* an address no Locator of ls points to: where a new url.URL is put
FreeAddr(ls) ==
  CHOOSE a \in Addrs :
    /\ \A j \in DOMAIN ls : ls[j].url # a
    /\ \A b \in 1..(a - 1) : \E j \in DOMAIN ls : ls[j].url = b

\* objects no Locator points to are collected
Collect(h, ls) ==
  [a \in Addrs |-> IF \E j \in DOMAIN ls : ls[j].url = a THEN h[a] ELSE EmptyURL]

Init ==
  /\ heap = [a \in Addrs |-> EmptyURL]
  /\ locs = << >>
  /\ made = << >>
  /\ last = NoCall
  /\ nops = 0

(***************************************************************************)
(* operations                                                              *)
(***************************************************************************)
\* one more call
Call == nops < MaxOps /\ nops' = nops + 1

\* a call that returns r: on success the new Locator, with its url at address
\* a, is added
Returned(op, b, s, r, a) ==
  IF r.err # ""
  THEN /\ UNCHANGED <<heap, locs, made>>
       /\ last' = [NoCall EXCEPT !.op = op, !.self = b, !.s = s, !.err = r.err,
                                 !.scheme = r.scheme,
                                 !.pre = IF b = 0 THEN NoView ELSE View(b)]
  ELSE /\ heap' = [heap EXCEPT ![a] = r.u]
       /\ locs' = Append(locs, [url |-> a, file |-> r.file])
       /\ made' = Append(made, [by |-> op, base |-> b])
       /\ last' = [NoCall EXCEPT !.op = op, !.self = b, !.s = s,
                                 !.res = Len(locs) + 1,
                                 !.pre = IF b = 0 THEN NoView ELSE View(b),
                                 !.post = [file |-> r.file, url |-> r.u]]

\* New(s)
New(s) ==
  /\ Call
  /\ Len(locs) < MaxLocs
  /\ Returned("New", 0, s, NewF(s), FreeAddr(locs))

\* Resolve that writes the resolved url into the url object of the base and
\* hands that object out
Resolve_Shared(b, s) ==
  /\ Call
  /\ Len(locs) < MaxLocs
  /\ Returned("Resolve", b, s, ResolveF(locs[b].file, heap[locs[b].url], s), locs[b].url)

\* locs[b].Resolve(s)
Resolve(b, s) ==
  /\ Call
  /\ Len(locs) < MaxLocs
  /\ Returned("Resolve", b, s, ResolveF(locs[b].file, heap[locs[b].url], s), FreeAddr(locs))

\* the url of Locator i after SetQueryParam(param, value) is u
QuerySet(i, param, value, u) ==
  /\ heap' = [heap EXCEPT ![locs[i].url] = u]
  /\ UNCHANGED <<locs, made>>
  /\ last' = [NoCall EXCEPT !.op = "SetQueryParam", !.self = i, !.s = param,
                            !.v = value, !.pre = View(i),
                            !.post = [file |-> locs[i].file, url |-> u]]

\* locs[i].SetQueryParam(param, value)
SetQueryParam(i, param, value) ==
  /\ Call
  /\ QuerySet(i, param, value, SetQueryParamF(locs[i].file, heap[locs[i].url], param, value))

\* locs[i].MarshalJSON()
MarshalJSON(i) ==
  /\ Call
  /\ UNCHANGED <<heap, locs, made>>
  /\ last' = [NoCall EXCEPT !.op = "MarshalJSON", !.self = i, !.pre = View(i),
                            !.post = View(i),
                            !.data = MarshalF(locs[i].file, heap[locs[i].url])]

\* the Locators after Locator i (0: the new one) was given the url at
\* address a and the flag f
Assigned(ls, i, a, f) ==
  IF i = 0 THEN Append(ls, [url |-> a, file |-> f])
  ELSE [ls EXCEPT ![i] = [url |-> a, file |-> f]]

\* the Locators but Locator i
Others(i) == IF i = 0 THEN locs ELSE [j \in DOMAIN locs \ {i} |-> locs[j]]

\* UnmarshalJSON(data) on Locator i returns r; on success the url New made,
\* at address a, and the flag are assigned
Unmarshalled(i, data, r, a) ==
  IF r.err # ""
  THEN /\ UNCHANGED <<heap, locs, made>>
       /\ last' = [NoCall EXCEPT !.op = "UnmarshalJSON", !.self = i, !.data = data,
                                 !.err = r.err, !.scheme = r.scheme,
                                 !.pre = IF i = 0 THEN NoView ELSE View(i)]
  ELSE /\ heap' = Collect([heap EXCEPT ![a] = r.u], Assigned(locs, i, a, r.file))
       /\ locs' = Assigned(locs, i, a, r.file)
       /\ made' = IF i = 0 THEN Append(made, [by |-> "UnmarshalJSON", base |-> 0])
                  ELSE made
       /\ last' = [NoCall EXCEPT !.op = "UnmarshalJSON", !.self = i, !.data = data,
                                 !.res = IF i = 0 THEN Len(locs) + 1 ELSE 0,
                                 !.pre = IF i = 0 THEN NoView ELSE View(i),
                                 !.post = [file |-> r.file, url |-> r.u]]

\* locs[i].UnmarshalJSON(data); i = 0 is a new zero Locator, kept when the
\* call succeeds
UnmarshalJSON(i, data) ==
  /\ Call
  /\ i = 0 => Len(locs) < MaxLocs
  /\ Unmarshalled(i, data, UnmarshalF(data), FreeAddr(Others(i)))

(***************************************************************************)
(* specifications                                                          *)
(***************************************************************************)
\* the canonical strings of the Locators made so far
Canonical == {String(heap[locs[i].url]) : i \in DOMAIN locs}

\* what MarshalJSON yields for the Locators made so far
Marshalled == {MarshalF(locs[i].file, heap[locs[i].url]) : i \in DOMAIN locs}

\* every operation, on the documented examples
Next ==
  \/ \E s \in Bases : New(s)
  \/ \E b \in DOMAIN locs : \E s \in RefExamples : Resolve(b, s)
  \/ \E i \in DOMAIN locs : \E p \in Params : \E v \in ParamValues : SetQueryParam(i, p, v)
  \/ \E i \in DOMAIN locs : MarshalJSON(i)
  \/ \E i \in 0..Len(locs) : \E d \in Docs \cup Marshalled : UnmarshalJSON(i, d)

Spec == Init /\ [][Next]_vars

\* file: URIs for the canonical absolute paths
FileURIs == {<<"f", "i", "l", "e", ":", "/", "/">> \o c : c \in {d \in Canonical : IsAbs(d)}}

\* the state after a first, successful New
Fresh == nops = 1 /\ Len(locs) = 1

\* New on a generated string, then one more call on the Locator it made
NextInputs ==
  \/ \E s \in Generated \cup Examples : nops = 0 /\ New(s)
  \/ \E s \in Canonical \cup FileURIs : Fresh /\ New(s)
  \/ \E s \in References : Fresh /\ Resolve(1, s)
  \/ \E p \in Params : \E v \in ParamValues : Fresh /\ SetQueryParam(1, p, v)
  \/ Fresh /\ MarshalJSON(1)
  \/ \E i \in {0, 1} : \E d \in Docs \cup Marshalled : Fresh /\ UnmarshalJSON(i, d)

SpecInputs == Init /\ [][NextInputs]_vars

(***************************************************************************)
(* properties                                                              *)
(***************************************************************************)
FileScheme == <<"f", "i", "l", "e">>
RemoteSchemes == {<<"h", "t", "t", "p">>, <<"h", "t", "t", "p", "s">>}
FileURIPrefix == <<"f", "i", "l", "e", ":", "/", "/">>

Ok == last.err = ""

\* the scheme url.Parse finds in the argument of the last call
ArgParsed == Parse(last.s).err = ""
ArgScheme == Parse(last.s).u.Scheme

\* the Locators a MarshalJSON before the last call could be taken of
Sources ==
  {View(j) : j \in DOMAIN locs \ {last.self, last.res}}
    \cup (IF last.self # 0 THEN {last.pre} ELSE {})

\* the kind invariant of a Locator
KindOK(l) ==
  IF l.file THEN l.url.Scheme = << >> /\ IsAbs(l.url.Path)
  ELSE l.url.Scheme \in RemoteSchemes

\* an absolute path without empty, "." or ".." segments
Collapsed(p) ==
  /\ IsAbs(p)
  /\ \/ p = <<"/">>
     \/ \A i \in 1..Len(p) :
          p[i] = "/" => CutBefore(Drop(p, i), "/") \notin {<< >>, <<".">>, <<".", ".">>}

\* a single path element that names an entry
PlainName(s) == s # << >> /\ ~Contains(s, "/") /\ s # <<".">> /\ s # <<".", ".">>

\* C1: UnmarshalJSON of what MarshalJSON gave for a Locator l succeeds and
\* yields the kind and the canonical string of l.
C1_RoundTrip ==
  last.op = "UnmarshalJSON" =>
    \A l \in Sources :
      MarshalF(l.file, l.url) = last.data =>
        /\ Ok
        /\ last.post.file = l.file
        /\ String(last.post.url) = String(l.url)

\* C2: a File Locator has an empty scheme and an absolute path, a Remote
\* Locator has the scheme http or https.
C2_KindInvariant == \A i \in DOMAIN locs : KindOK(View(i))

\* C3, as claimed: String(New(s)) = s for every accepted s that is no file:
\* URI, and New("file://" + p) and New(p) both give the canonical string p.
C3_StringIsInput ==
  (last.op = "New" /\ Ok) =>
    /\ ArgScheme # FileScheme => String(last.post.url) = last.s
    /\ (HasPrefix(last.s, FileURIPrefix) /\ IsAbs(Drop(last.s, Len(FileURIPrefix)))) =>
         LET p == Drop(last.s, Len(FileURIPrefix))
             n == NewF(p)
         IN n.err = "" /\ n.file /\ last.post.file
            /\ String(n.u) = p /\ String(last.post.url) = p

\* C3, amended: String(New(s)) = s for every accepted s, no file: URI, that
\* is in the normal form of net/url (url.Parse(s).String() = s); and for an
\* absolute path p without a leading "//", New("file://" + p) and New(p) fail
\* together or give File Locators with one canonical string, which is p when
\* p is in normal form.
C3_CanonicalRoundTrip ==
  last.op = "New" =>
    /\ (Ok /\ ArgScheme # FileScheme /\ URLString(Parse(last.s).u) = last.s)
         => String(last.post.url) = last.s
    /\ (HasPrefix(last.s, FileURIPrefix) /\ IsAbs(Drop(last.s, Len(FileURIPrefix)))
        /\ ~HasPrefix(Drop(last.s, Len(FileURIPrefix)), <<"/", "/">>)) =>
         LET p == Drop(last.s, Len(FileURIPrefix))
             n == NewF(p)
         IN /\ Ok <=> n.err = ""
            /\ Ok => /\ n.file /\ last.post.file
                     /\ String(n.u) = String(last.post.url)
                     /\ URLString(Parse(p).u) = p => String(last.post.url) = p

\* C3 happens: New took the file: URI of the canonical string of the File
\* Locator made before, and gave that string back
C3_Witness ==
  /\ last.op = "New" /\ Ok /\ last.res = 2 /\ last.post.file
  /\ View(1).file /\ View(1).url.RawQuery # << >>
  /\ last.s = FileURIPrefix \o String(View(1).url)
  /\ String(last.post.url) = String(View(1).url)

\* C4: New decides by the parsed scheme: another scheme than "", file, http
\* and https fails with the unsupported-scheme error that names it and makes
\* no Locator; no scheme and no absolute path fails with "expected absolute
\* path"; no scheme with an absolute path, and file, give a File Locator;
\* http and https give a Remote Locator.
C4_ClassifiedByScheme ==
  (last.op = "New" /\ ArgParsed) =>
    /\ ArgScheme \notin {<< >>, FileScheme} \cup RemoteSchemes =>
         last.err = "unsupported scheme" /\ last.scheme = ArgScheme /\ last.res = 0
    /\ (ArgScheme = << >> /\ ~IsAbs(last.s)) =>
         last.err = "expected absolute path" /\ last.res = 0
    /\ ((ArgScheme = << >> /\ IsAbs(last.s)) \/ ArgScheme = FileScheme) =>
         Ok /\ last.res # 0 /\ last.post.file /\ View(last.res) = last.post
    /\ ArgScheme \in RemoteSchemes =>
         Ok /\ last.res # 0 /\ ~last.post.file /\ View(last.res) = last.post

\* C4 happens: New refused an ftp URL
C4_Witness ==
  last.op = "New" /\ last.err = "unsupported scheme" /\ last.scheme = <<"f", "t", "p">>

\* C5: Resolve of a reference that carries a scheme has the outcome of New
\* on that reference, whatever the base.
C5_SchemeMeansNew ==
  (last.op = "Resolve" /\ ArgParsed /\ ArgScheme # << >>) =>
    LET n == NewF(last.s)
    IN /\ last.err = n.err
       /\ last.scheme = n.scheme
       /\ n.err = "" => /\ last.post.file = n.file
                        /\ String(last.post.url) = String(n.u)
                        /\ View(last.res) = last.post

\* C5 happens: a File base resolved an https reference to a Remote Locator
C5_Witness ==
  /\ last.op = "Resolve" /\ Ok /\ last.pre.file /\ ~last.post.file
  /\ ArgScheme = <<"h", "t", "t", "p", "s">>

\* C6: UnmarshalJSON succeeds only with a non-empty Url that New accepts with
\* the kind the File flag states; no Url is the missing-field error, a flag
\* against the kind is the inconsistent-state error, and a failed call leaves
\* the receiver as it was.
C6_UnmarshalChecks ==
  last.op = "UnmarshalJSON" =>
    LET jl == jsonUnmarshal(last.data)
        n == NewF(jl.Url)
    IN /\ Ok => jl.err = "" /\ jl.Url # << >> /\ n.err = "" /\ n.file = jl.File
       /\ (jl.err = "" /\ jl.Url = << >>) => last.err = "missing url"
       /\ (jl.err = "" /\ jl.Url # << >> /\ n.err = "" /\ n.file # jl.File) =>
            last.err = "file flag mismatch"
       /\ (~Ok /\ last.self # 0) => View(last.self) = last.pre

\* C6 happens: a Locator was handed data whose flag contradicts its Url
C6_Witness ==
  /\ last.op = "UnmarshalJSON" /\ last.err = "file flag mismatch" /\ last.self # 0
  /\ jsonUnmarshal(last.data).Url = <<"/", "a", "/", "b">>

\* C7: on a Remote Locator SetQueryParam(k, v) leaves k with the one value
\* v, SetQueryParam(k, "") leaves no k, in the query and in the canonical
\* string, and every other parameter keeps its values.
C7_QuerySet ==
  (last.op = "SetQueryParam" /\ ~last.pre.file) =>
    LET before == Query(last.pre.url)
        after == Query(View(last.self).url)
        reparsed == Query(Parse(String(View(last.self).url)).u)
    IN /\ last.v # << >> => last.s \in DOMAIN after /\ after[last.s] = <<last.v>>
       /\ last.v = << >> => last.s \notin DOMAIN after
       /\ DOMAIN after \ {last.s} = DOMAIN before \ {last.s}
       /\ \A k \in DOMAIN before \ {last.s} : after[k] = before[k]
       /\ reparsed = after
       /\ View(last.self).file = last.pre.file

\* C7 happens: a parameter with two values was removed, another one stayed
C7_Witness ==
  /\ last.op = "SetQueryParam" /\ ~last.pre.file /\ last.v = << >>
  /\ last.s \in DOMAIN Query(last.pre.url)
  /\ Len(Query(last.pre.url)[last.s]) > 1
  /\ DOMAIN Query(View(last.self).url) # {}

\* C8: on a File Locator SetQueryParam changes nothing.
C8_FileNoOp ==
  (last.op = "SetQueryParam" /\ last.pre.file) =>
    /\ View(last.self) = last.pre
    /\ String(View(last.self).url) = String(last.pre.url)

\* C8 happens: a File Locator was asked to set a parameter to a value
C8_Witness ==
  /\ last.op = "SetQueryParam" /\ last.pre.file /\ last.v # << >>
  /\ String(last.pre.url) = <<"/", "t", "m", "p", "/", "x">>

\* C9: a File base resolves a parsed reference without scheme that is no
\* absolute path to a File Locator whose path is the directory of the base
\* path joined with the reference, collapsed, and whose other fields are empty.
C9_FileRelative ==
  (last.op = "Resolve" /\ last.pre.file /\ ArgParsed /\ ArgScheme = << >>
   /\ ~IsAbs(last.s)) =>
    LET bp == last.pre.url.Path
        path == last.post.url.Path
    IN /\ Ok /\ last.res # 0 /\ last.post.file
       /\ View(last.res) = last.post
       /\ last.post.url = [EmptyURL EXCEPT !.Path = Join(Dir(bp), last.s)]
       /\ IsAbs(bp) => Collapsed(path)
       /\ (Collapsed(bp) /\ PlainName(last.s)) =>
            path = SubSeq(bp, 1, LastIndex(bp, "/")) \o last.s

\* C9 happens: /a/b/c.txt resolved d.txt to /a/b/d.txt
C9_Witness ==
  /\ last.op = "Resolve" /\ Ok
  /\ last.pre.file /\ last.pre.url.Path = <<"/", "a", "/", "b", "/", "c", ".", "t", "x", "t">>
  /\ last.s = <<"d", ".", "t", "x", "t">>
  /\ String(View(last.res).url) = <<"/", "a", "/", "b", "/", "d", ".", "t", "x", "t">>

\* C10: Resolve leaves every Locator there is as it was, and SetQueryParam
\* leaves every Locator but its receiver as it was: a base and the Locator
\* resolved from it never change together.
C10_BaseUntouched ==
  [][\A i \in DOMAIN locs :
       (last'.op = "Resolve" \/ (last'.op = "SetQueryParam" /\ last'.self # i)) =>
         /\ locs'[i].file = locs[i].file
         /\ String(heap'[locs'[i].url]) = String(heap[locs[i].url])]_vars

\* C10 happens: SetQueryParam changed a Locator that Resolve had returned
C10_Witness ==
  /\ last.op = "SetQueryParam"
  /\ made[last.self].by = "Resolve"
  /\ String(last.post.url) # String(last.pre.url)
  /\ ~View(made[last.self].base).file

====
